---- MODULE Spec2Model ----
(***************************************************************************)
(* Model of the element generator of grkuntzmd/elemental (src/main.go).    *)
(*                                                                         *)
(* main() ranges over the map `elements`, derives the template data of     *)
(* each entry (upper, attrs, e) and calls executeTemplate twice, once with *)
(* the primary template and once with the test template.  executeTemplate  *)
(* renders, formats, creates the output file and writes it; it panics on   *)
(* the first error.                                                        *)
(*                                                                         *)
(* Go strings are byte strings: they are modelled as sequences of bytes    *)
(* (0..255), so that k[0], k[1:] and string(k[0]) mean what they mean in   *)
(* Go.  The byte values used below are given in comments.                  *)
(***************************************************************************)
EXTENDS Integers, Sequences, FiniteSets, TLC

VARIABLES
    elements,   \* the catalog: map from key to Desc (read-only during a run)
    visited,    \* keys the range loop of main has already yielded in this run
    pc,         \* position of the program: range, execute, format, create,
                \* write, done (main returned), panic (the process died)
    k,          \* loop variable k of main
    e,          \* loop variable e of main (templElem / el)
    t,          \* template of the running executeTemplate: "primary" or "test"
    n,          \* file name argument of the running executeTemplate
    files,      \* the file system: path -> contents
    report,     \* the value the process panicked with
    log,        \* the steps executeTemplate has attempted in this run
    run,        \* number of the current run of the program
    outputs     \* the file system as each earlier complete run left it

vars == <<elements, visited, pc, k, e, t, n, files, report, log, run, outputs>>

(***************************************************************************)
(* Bounds of the model.                                                    *)
(***************************************************************************)
MaxEntries == 2     \* entries of a catalog
MaxAttrs == 2       \* attributes of one entry
MaxRuns == 2        \* runs of the program over the same catalog

(***************************************************************************)
(* Byte strings.                                                           *)
(***************************************************************************)
Empty == <<>>                                            \* ""
ElemSuffix == <<69, 108, 101, 109>>                      \* "Elem"
PropsSuffix == <<80, 114, 111, 112, 115>>                \* "Props"
StringType == <<115, 116, 114, 105, 110, 103>>           \* "string"
PrimaryFileSuffix == <<95, 101, 108, 101, 109, 46, 103, 111>>
                                                         \* "_elem.go"
TestFileSuffix == <<95, 101, 108, 101, 109, 95, 116, 101, 115, 116, 46, 103, 111>>
                                                         \* "_elem_test.go"
Separator == <<47>>                                      \* "/"
Dot == <<46>>                                            \* "."
DotDot == <<46, 46>>                                     \* ".."
outputDirectory == Dot                                   \* flag -o, default "."

(***************************************************************************)
(* unicode and UTF-8, as far as strings.ToUpper(string(k[0])) needs them.  *)
(***************************************************************************)
\* unicode.ToUpper for the runes U+0000..U+00FF (every rune string(byte)
\* can yield); other runes are left alone.
ToUpperRune(r) ==
    IF r >= 97 /\ r <= 122 THEN r - 32                   \* 'a'..'z'
    ELSE IF r = 181 THEN 924                             \* U+00B5 -> U+039C
    ELSE IF r >= 224 /\ r <= 254 /\ r # 247 THEN r - 32  \* U+00E0..U+00FE
    ELSE IF r = 255 THEN 376                             \* U+00FF -> U+0178
    ELSE r

\* utf8.EncodeRune: the UTF-8 bytes of a rune below U+10000.
EncodeRune(r) ==
    IF r < 128 THEN <<r>>
    ELSE IF r < 2048 THEN <<192 + (r \div 64), 128 + (r % 64)>>
    ELSE <<224 + (r \div 4096), 128 + ((r \div 64) % 64), 128 + (r % 64)>>

\* utf8.DecodeRune: the first rune of a non-empty byte string and its width;
\* U+FFFD of width 1 for an invalid encoding.
DecodeRune(s) ==
    LET b == s[1] IN
    IF b < 128 THEN [rune |-> b, width |-> 1]
    ELSE IF b >= 194 /\ b <= 223 /\ Len(s) >= 2 /\ s[2] >= 128 /\ s[2] <= 191
        THEN [rune |-> (b - 192) * 64 + (s[2] - 128), width |-> 2]
    ELSE IF b >= 224 /\ b <= 239 /\ Len(s) >= 3
            /\ s[2] >= 128 /\ s[2] <= 191 /\ s[3] >= 128 /\ s[3] <= 191
        THEN [rune |-> (b - 224) * 4096 + (s[2] - 128) * 64 + (s[3] - 128),
              width |-> 3]
    ELSE [rune |-> 65533, width |-> 1]

\* string(b) for a byte b: the UTF-8 encoding of the rune U+00b.
ByteToString(b) == EncodeRune(b)

\* strings.ToUpper: every rune of s mapped through unicode.ToUpper.
RECURSIVE ToUpper(_)
ToUpper(s) ==
    IF s = Empty THEN Empty
    ELSE LET d == DecodeRune(s) IN
         EncodeRune(ToUpperRune(d.rune)) \o ToUpper(SubSeq(s, d.width + 1, Len(s)))

(***************************************************************************)
(* path/filepath, as far as filepath.Join(outputDirectory, n) needs it.    *)
(***************************************************************************)
\* The components of a path: the byte strings between its separators.
RECURSIVE Split(_, _)
Split(s, cur) ==
    IF s = Empty THEN <<cur>>
    ELSE IF Head(s) = 47 THEN <<cur>> \o Split(Tail(s), Empty)
    ELSE Split(Tail(s), Append(cur, Head(s)))

\* filepath.Clean on the components of a relative path: empty and "."
\* components are dropped, an inner ".." removes the component before it,
\* a leading ".." stays.
RECURSIVE CleanComponents(_, _)
CleanComponents(comps, acc) ==
    IF comps = <<>> THEN acc
    ELSE LET c == Head(comps) IN
         IF c = Empty \/ c = Dot THEN CleanComponents(Tail(comps), acc)
         ELSE IF c = DotDot /\ acc # <<>> /\ acc[Len(acc)] # DotDot
             THEN CleanComponents(Tail(comps), SubSeq(acc, 1, Len(acc) - 1))
         ELSE CleanComponents(Tail(comps), Append(acc, c))

RECURSIVE JoinComponents(_)
JoinComponents(comps) ==
    IF comps = <<>> THEN Empty
    ELSE IF Len(comps) = 1 THEN comps[1]
    ELSE comps[1] \o Separator \o JoinComponents(Tail(comps))

\* filepath.Clean of a relative path; the cleaned empty path is ".".
Clean(p) ==
    LET c == CleanComponents(Split(p, Empty), <<>>) IN
    IF c = <<>> THEN Dot ELSE JoinComponents(c)

\* filepath.Join(dir, name) for non-empty dir and name.
Join(dir, name) == Clean(dir \o Separator \o name)

(***************************************************************************)
(* Name derivation: the body of the range loop of main before the two      *)
(* executeTemplate calls.                                                  *)
(***************************************************************************)
\* upper: the override, else the key with string(k[0]) uppercased.
\* k[0] is evaluated only when the override is empty.
Upper(key, v) ==
    IF v.Override # Empty THEN v.Override
    ELSE ToUpper(ByteToString(key[1])) \o SubSeq(key, 2, Len(key))

\* k[0] on an empty key is an index out of range: a run-time panic.
UpperPanics(key, v) == v.Override = Empty /\ key = Empty

\* name of one attribute: js with string(js[0]) uppercased, else the override.
AttrName(a) ==
    IF a.Override = Empty
        THEN ToUpper(ByteToString(a.Name[1])) \o SubSeq(a.Name, 2, Len(a.Name))
    ELSE a.Override

\* js[0] on an empty attribute name is an index out of range.
AttrPanics(a) == a.Override = Empty /\ a.Name = Empty

\* AttrType with its condition inverted.
AttrTypeInverted(a) == IF a.Type # Empty THEN StringType ELSE a.Type

\* t of one attribute: "string" unless the attribute names a type.
AttrType(a) == IF a.Type = Empty THEN StringType ELSE a.Type

\* TemplAttr with the field name in JS.
TemplAttrNameAsJS(a) ==
    [Name |-> AttrName(a), JS |-> AttrName(a), Type |-> AttrType(a)]

\* templAttr{Name: name, JS: js, Type: t}
TemplAttr(a) == [Name |-> AttrName(a), JS |-> a.Name, Type |-> AttrType(a)]

\* attrs: one templAttr appended per attribute, in the order of v.Attributes.
Attrs(v) == [i \in 1..Len(v.Attributes) |-> TemplAttr(v.Attributes[i])]

\* e := templElem{Elem, Name, Props, Upper, Attrs}
TemplElem(key, v) ==
    [Elem  |-> Upper(key, v) \o ElemSuffix,
     Name  |-> key,
     Props |-> Upper(key, v) \o PropsSuffix,
     Upper |-> Upper(key, v),
     Attrs |-> Attrs(v)]

\* The loop body panics before e is built.
DerivePanics(key, v) ==
    \/ UpperPanics(key, v)
    \/ \E i \in 1..Len(v.Attributes) : AttrPanics(v.Attributes[i])

(***************************************************************************)
(* executeTemplate: what it computes.                                      *)
(***************************************************************************)
\* t.Execute(b, e): the text is determined by the template and the data.
Render(tmpl, data) == <<tmpl, data>>

\* t.Execute returns an error when the data lacks a field the template
\* names (b is a bytes.Buffer: writing to it returns none).
Executes(tmpl, data) ==
    /\ {"Elem", "Name", "Props", "Upper"} \subseteq DOMAIN data
    /\ tmpl = "primary" =>
        /\ "Attrs" \in DOMAIN data
        /\ \A i \in DOMAIN data.Attrs :
            {"Name", "JS", "Type"} \subseteq DOMAIN data.Attrs[i]

\* format.Source(b.Bytes()): the formatted text, determined by the source.
FormatSource(b) == <<"gofmt">> \o b

\* Go's letter and digit, for the runes up to U+00FF; the runes above are
\* taken for letters, U+FFFD (an invalid encoding) is none.
IsLetter(r) ==
    \/ r >= 65 /\ r <= 90
    \/ r >= 97 /\ r <= 122
    \/ r = 95
    \/ r \in {170, 181, 186}
    \/ r >= 192 /\ r <= 255 /\ r \notin {215, 247}
    \/ r > 255 /\ r # 65533

IsDigit(r) == r >= 48 /\ r <= 57

RECURSIVE IsIdentifierTail(_)
IsIdentifierTail(s) ==
    \/ s = Empty
    \/ LET d == DecodeRune(s) IN
       /\ IsLetter(d.rune) \/ IsDigit(d.rune)
       /\ IsIdentifierTail(SubSeq(s, d.width + 1, Len(s)))

\* A Go identifier: a letter, then letters and digits.
IsIdentifier(s) ==
    /\ s # Empty
    /\ IsLetter(DecodeRune(s).rune)
    /\ IsIdentifierTail(SubSeq(s, DecodeRune(s).width + 1, Len(s)))

\* Both templates use Upper, Elem and Props as identifiers (type .Elem,
\* func .Upper, Test.Elem) and the primary template each attribute's Name as
\* a field name: format.Source cannot parse the text when one of them is no
\* identifier.  Name and JS appear only in comments and string literals.
Unparsable(tmpl, data) ==
    \/ ~IsIdentifier(data.Upper)
    \/ tmpl = "primary"
        /\ \E i \in DOMAIN data.Attrs : ~IsIdentifier(data.Attrs[i].Name)

\* What a failed f.Write may have left in the file: a proper prefix.
Prefix(bytes) == <<"prefix">> \o bytes

\* k+"_elem.go" and k+"_elem_test.go"
FileName(key, tmpl) ==
    IF tmpl = "primary" THEN key \o PrimaryFileSuffix ELSE key \o TestFileSuffix

\* filepath.Join(*outputDirectory, n)
OutputPath(name) == Join(outputDirectory, name)

\* Panic that lets the loop go on with the next entry.
PanicRecovered(err) == [pc |-> "range", report |-> err]

\* panic(err): the process dies with err.
Panic(err) == [pc |-> "panic", report |-> err]

NoReport == [op |-> "none", tmpl |-> "", path |-> Empty]
\* runtime error: index out of range (k[0], js[0])
IndexError == [op |-> "index", tmpl |-> "", path |-> Empty]
\* template.ExecError: its text names the template, not the data.
ExecError(tmpl) == [op |-> "execute", tmpl |-> tmpl, path |-> Empty]
\* scanner.ErrorList of format.Source: positions in an unnamed source.
FormatError == [op |-> "format", tmpl |-> "", path |-> Empty]
\* *os.PathError of os.Create and of f.Write: it carries the path.
PathError(op, path) == [op |-> op, tmpl |-> "", path |-> path]

(***************************************************************************)
(* The catalogs the model runs over.                                       *)
(***************************************************************************)
KeyPool ==
    { Empty,                         \* ""
      <<99, 111, 108>>,              \* "col"
      <<195, 169>>,                  \* "é" (U+00E9)
      <<46, 47, 99, 111, 108>> }     \* "./col"

OverridePool == { Empty, <<88>> }    \* "", "X"

Cite == [Name |-> <<99, 105, 116, 101>>, Override |-> Empty, Type |-> Empty]
                                     \* {Name: "cite"}
BGColor ==
    [Name |-> <<98, 103, 99, 111, 108, 111, 114>>,
     Override |-> <<66, 71, 67, 111, 108, 111, 114>>, Type |-> Empty]
                                     \* {Name: "bgcolor", Override: "BGColor"}
Open ==
    [Name |-> <<111, 112, 101, 110>>, Override |-> Empty,
     Type |-> <<98, 111, 111, 108>>] \* {Name: "open", Type: "bool"}
Unnamed == [Name |-> Empty, Override |-> Empty, Type |-> Empty]
                                     \* {Name: ""}
EAcute == [Name |-> <<195, 169>>, Override |-> Empty, Type |-> Empty]
                                     \* {Name: "é"}

AttrPool == { Cite, BGColor, Open, Unnamed, EAcute }

SeqsUpTo(S, m) == UNION { [1..len -> S] : len \in 0..m }

\* Desc / tomlDesc values with any attributes of the pool.
WideDescs ==
    { [Override |-> o, Attributes |-> as] :
        o \in OverridePool, as \in SeqsUpTo(AttrPool, MaxAttrs) }

\* Two Desc / tomlDesc values: Desc{} and one with an override and the
\* attribute "cite".
NarrowDescs ==
    { [Override |-> Empty, Attributes |-> <<>>],
      [Override |-> <<88>>, Attributes |-> <<Cite>>] }

\* map[string]Desc with at most m entries
Catalogs(descs, m) ==
    UNION { [K -> descs] : K \in { S \in SUBSET KeyPool : Cardinality(S) <= m } }

NoElem == [Elem |-> Empty, Name |-> Empty, Props |-> Empty, Upper |-> Empty,
           Attrs |-> <<>>]

\* The state when main starts its range loop, for a given catalog.
Start(catalog) ==
    /\ elements = catalog
    /\ visited = {}
    /\ pc = "range"
    /\ k = Empty
    /\ e = NoElem
    /\ t = "primary"
    /\ n = Empty
    /\ files = [p \in {} |-> Empty]
    /\ report = NoReport
    /\ log = <<>>
    /\ run = 1
    /\ outputs = <<>>

Init == \E catalog \in Catalogs(NarrowDescs, MaxEntries) : Start(catalog)

\* One entry, with every shape of Desc: the inputs of the name derivation.
InitDerive == \E catalog \in Catalogs(WideDescs, 1) : Start(catalog)

(***************************************************************************)
(* The program.                                                            *)
(***************************************************************************)
Logged(step, path, ok) ==
    Append(log, [key |-> k, tmpl |-> t, step |-> step, path |-> path, ok |-> ok])

\* for k, v := range elements { ... }: the loop yields a key it has not
\* yielded yet, in an unspecified order, and the body derives e and calls
\* executeTemplate(k+"_elem.go", primary, e).
RangeNext(key) ==
    /\ pc = "range"
    /\ key \in DOMAIN elements \ visited
    /\ visited' = visited \cup {key}
    /\ k' = key
    /\ IF DerivePanics(key, elements[key])
          THEN /\ pc' = Panic(IndexError).pc
               /\ report' = Panic(IndexError).report
               /\ UNCHANGED <<e, t, n>>
          ELSE /\ e' = TemplElem(key, elements[key])
               /\ t' = "primary"
               /\ n' = FileName(key, "primary")
               /\ pc' = "execute"
               /\ UNCHANGED report
    /\ UNCHANGED <<elements, files, log, run, outputs>>

\* RangeDone that leaves the loop after any entry.
RangeDoneEarly == visited # {}

\* The loop is over: main returns.
RangeDone == visited = DOMAIN elements

RangeEnd ==
    /\ pc = "range"
    /\ RangeDone
    /\ pc' = "done"
    /\ UNCHANGED <<elements, visited, k, e, t, n, files, report, log, run, outputs>>

\* if err := t.Execute(b, e); err != nil { panic(err) }
Execute ==
    /\ pc = "execute"
    /\ \E ok \in {Executes(t, e)} :
        /\ log' = Logged("execute", Empty, ok)
        /\ IF ok THEN pc' = "format" /\ UNCHANGED report
                 ELSE /\ pc' = Panic(ExecError(t)).pc
                      /\ report' = Panic(ExecError(t)).report
    /\ UNCHANGED <<elements, visited, k, e, t, n, files, run, outputs>>

\* formatted, err := format.Source(b.Bytes()); if err != nil { panic(err) }
\* format.Source returns an error exactly when it cannot parse the text.
Format ==
    /\ pc = "format"
    /\ \E ok \in {~Unparsable(t, e)} :
        /\ log' = Logged("format", Empty, ok)
        /\ IF ok THEN pc' = "create" /\ UNCHANGED report
                 ELSE /\ pc' = Panic(FormatError).pc
                      /\ report' = Panic(FormatError).report
    /\ UNCHANGED <<elements, visited, k, e, t, n, files, run, outputs>>

\* The file system with the file at path holding bytes.
WithFile(path, bytes) ==
    [p \in DOMAIN files \cup {path} |-> IF p = path THEN bytes ELSE files[p]]

\* f, err := os.Create(filepath.Join(*outputDirectory, n)): the file is
\* created, or truncated when it exists.
Create ==
    /\ pc = "create"
    /\ \E path \in {OutputPath(n)}, ok \in BOOLEAN :
        /\ log' = Logged("create", path, ok)
        /\ IF ok THEN /\ files' = WithFile(path, Empty)
                      /\ pc' = "write"
                      /\ UNCHANGED report
                 ELSE /\ pc' = Panic(PathError("open", path)).pc
                      /\ report' = Panic(PathError("open", path)).report
                      /\ UNCHANGED files
    /\ UNCHANGED <<elements, visited, k, e, t, n, run, outputs>>

\* f.Write(formatted), then executeTemplate returns: to the second call
\* executeTemplate(k+"_elem_test.go", test, e), or to the top of the loop.
Write ==
    /\ pc = "write"
    /\ \E path \in {OutputPath(n)}, formatted \in {FormatSource(Render(t, e))},
          ok \in BOOLEAN :
        /\ log' = Logged("write", path, ok)
        /\ IF ok THEN /\ files' = WithFile(path, formatted)
                      /\ UNCHANGED report
                      /\ IF t = "primary"
                            THEN /\ t' = "test"
                                 /\ n' = FileName(k, "test")
                                 /\ pc' = "execute"
                            ELSE /\ pc' = "range"
                                 /\ UNCHANGED <<t, n>>
                 ELSE /\ \E left \in {Empty, Prefix(formatted)} :
                            files' = WithFile(path, left)
                      /\ pc' = Panic(PathError("write", path)).pc
                      /\ report' = Panic(PathError("write", path)).report
                      /\ UNCHANGED <<t, n>>
    /\ UNCHANGED <<elements, visited, k, e, run, outputs>>

\* The program is run again over the same catalog and output directory,
\* after a run that completed.
Restart ==
    /\ pc = "done"
    /\ run < MaxRuns
    /\ run' = run + 1
    /\ outputs' = Append(outputs, files)
    /\ visited' = {}
    /\ pc' = "range"
    /\ k' = Empty
    /\ e' = NoElem
    /\ t' = "primary"
    /\ n' = Empty
    /\ log' = <<>>
    /\ UNCHANGED <<elements, files, report>>

Next ==
    \/ \E key \in KeyPool : RangeNext(key)
    \/ RangeEnd
    \/ Execute
    \/ Format
    \/ Create
    \/ Write
    \/ Restart

Spec == Init /\ [][Next]_vars

SpecDerive == InitDerive /\ [][Next]_vars

(***************************************************************************)
(* Vocabulary of the properties.                                           *)
(***************************************************************************)
Kinds == {"primary", "test"}        \* implementation and test artifact

\* executeTemplate is running for entry k: e holds the names derived for k.
InExecuteTemplate == pc \in {"execute", "format", "create", "write"}

\* A string with only its first character (not its first byte) uppercased.
FirstCharUpper(s) ==
    IF s = Empty THEN Empty
    ELSE LET d == DecodeRune(s) IN
         EncodeRune(ToUpperRune(d.rune)) \o SubSeq(s, d.width + 1, Len(s))

\* The steps of the log that failed.
Failures == { i \in DOMAIN log : ~log[i].ok }

\* The report carries the output path of an artifact of the entry.
ReportNamesEntry(r, key) ==
    \E tmpl \in Kinds : r.path = OutputPath(FileName(key, tmpl))

\* The report carries the template's name or the artifact's output path.
ReportNamesKind(r, key, tmpl) ==
    r.tmpl = tmpl \/ r.path = OutputPath(FileName(key, tmpl))

(***************************************************************************)
(* C1. Fail-fast: when a render, format or write step of an artifact has   *)
(* failed, no step has been attempted for an entry the loop has not        *)
(* reached, exactly one step has failed, and the report identifies both    *)
(* the entry (its key) and the artifact kind.                              *)
(* The code panics with the bare error: format.Source's error names        *)
(* neither, the template's error names the template only.                  *)
(***************************************************************************)
C1_FailFastReport ==
    (pc = "panic" /\ report.op \in {"execute", "format", "open", "write"}) =>
        /\ \A i \in DOMAIN log : log[i].key \in visited
        /\ Cardinality(Failures) = 1
        /\ ReportNamesEntry(report, k)
        /\ ReportNamesKind(report, k, t)

(***************************************************************************)
(* C2. For a non-empty key, Upper is the override when there is one, else  *)
(* the key with only its first character uppercased; Elem and Props are    *)
(* Upper followed by "Elem" and "Props".                                   *)
(* The code uppercases string(k[0]), the first byte: a key whose first     *)
(* character is not ASCII gets a different identifier.                     *)
(***************************************************************************)
C2_CanonicalIdentifier ==
    (InExecuteTemplate /\ k # Empty) =>
        /\ e.Upper = IF elements[k].Override # Empty
                        THEN elements[k].Override
                        ELSE FirstCharUpper(k)
        /\ e.Elem = e.Upper \o ElemSuffix
        /\ e.Props = e.Upper \o PropsSuffix

(***************************************************************************)
(* C3. The JS name of every resolved attribute is the attribute's Name     *)
(* verbatim, with or without an override on the attribute or the element.  *)
(***************************************************************************)
C3_ExternalNameVerbatim ==
    InExecuteTemplate =>
        /\ Len(e.Attrs) = Len(elements[k].Attributes)
        /\ \A i \in DOMAIN e.Attrs : e.Attrs[i].JS = elements[k].Attributes[i].Name

\* An element with an override, one attribute with an override and one
\* without, both resolved.
C3_Witness ==
    /\ InExecuteTemplate
    /\ elements[k].Override # Empty
    /\ \E i, j \in DOMAIN e.Attrs :
        /\ elements[k].Attributes[i].Override # Empty
        /\ elements[k].Attributes[j].Override = Empty
        /\ e.Attrs[i].JS = elements[k].Attributes[i].Name
        /\ e.Attrs[i].JS # e.Attrs[i].Name
        /\ e.Attrs[j].JS # e.Attrs[j].Name

(***************************************************************************)
(* C4. The resolved attributes are one per attribute, in order, and the    *)
(* i-th field name is the i-th override when there is one, else the i-th   *)
(* Name with only its first character uppercased.                          *)
(* The code uppercases string(js[0]), the first byte.                      *)
(***************************************************************************)
C4_FieldNames ==
    InExecuteTemplate =>
        /\ Len(e.Attrs) = Len(elements[k].Attributes)
        /\ \A i \in DOMAIN e.Attrs :
            e.Attrs[i].Name =
                IF elements[k].Attributes[i].Override # Empty
                    THEN elements[k].Attributes[i].Override
                    ELSE FirstCharUpper(elements[k].Attributes[i].Name)

(***************************************************************************)
(* C5. The resolved type of an attribute is "string" when the attribute    *)
(* names no type, and the named type verbatim otherwise.                   *)
(***************************************************************************)
C5_FieldType ==
    InExecuteTemplate =>
        \A i \in DOMAIN e.Attrs :
            /\ elements[k].Attributes[i].Type = Empty
                => e.Attrs[i].Type = StringType
            /\ elements[k].Attributes[i].Type # Empty
                => e.Attrs[i].Type = elements[k].Attributes[i].Type

\* An entry with a typed and an untyped attribute, both resolved.
C5_Witness ==
    /\ InExecuteTemplate
    /\ \E i, j \in DOMAIN e.Attrs :
        /\ elements[k].Attributes[i].Type = Empty
        /\ e.Attrs[i].Type = StringType
        /\ elements[k].Attributes[j].Type # Empty
        /\ e.Attrs[j].Type = elements[k].Attributes[j].Type
        /\ e.Attrs[j].Type # StringType

(***************************************************************************)
(* C6. Determinism: a complete run over the unchanged catalog ends with    *)
(* the same output files (paths and contents) as every complete run before *)
(* it, whatever the order in which each run ranged over the map.           *)
(* Two keys that filepath.Join maps to the same path (C8) make the surviving *)
(* contents depend on the order of the range loop.                         *)
(***************************************************************************)
C6_Determinism ==
    pc = "done" => \A i \in DOMAIN outputs : outputs[i] = files

(***************************************************************************)
(* C7. An entry with the empty key aborts the run at that entry, whatever  *)
(* its override and attributes: no artifact of it is rendered or written.  *)
(* The code evaluates k[0] only when the override is empty.                *)
(***************************************************************************)
C7_EmptyKeyFailsFast ==
    Empty \in visited =>
        /\ pc = "panic"
        /\ k = Empty
        /\ \A i \in DOMAIN log : log[i].key # Empty

(***************************************************************************)
(* C8. Every artifact's path is outputDirectory joined with the key and    *)
(* its suffix, and no path is created twice in a run: the paths of the     *)
(* (entry, kind) pairs are pairwise distinct.                              *)
(* filepath.Join cleans the path: the keys "col" and "./col" share both.   *)
(***************************************************************************)
C8_PathsWrittenOnce ==
    /\ \A i \in DOMAIN log :
        log[i].step \in {"create", "write"} =>
            log[i].path = OutputPath(FileName(log[i].key, log[i].tmpl))
    /\ \A i, j \in DOMAIN log :
        (i < j /\ log[i].step = "create" /\ log[j].step = "create")
            => log[i].path # log[j].path

(***************************************************************************)
(* C9. Termination and coverage.                                           *)
(***************************************************************************)
Terminated == pc \in {"done", "panic"}

\* The successful writes of an artifact in this run.
Writes(key, tmpl) ==
    { i \in DOMAIN log : /\ log[i].key = key
                         /\ log[i].tmpl = tmpl
                         /\ log[i].step = "write"
                         /\ log[i].ok }

\* The file holds a whole formatted artifact.
Complete(bytes) == bytes # Empty /\ bytes[1] = "gofmt"

\* Every entry has had its two artifacts written, once each, its two paths
\* hold whole artifacts, and every file is at the path of a catalog key.
Coverage ==
    /\ \A key \in DOMAIN elements : \A tmpl \in Kinds :
        /\ Cardinality(Writes(key, tmpl)) = 1
        /\ OutputPath(FileName(key, tmpl)) \in DOMAIN files
        /\ Complete(files[OutputPath(FileName(key, tmpl))])
    /\ \A p \in DOMAIN files :
        \E key \in DOMAIN elements, tmpl \in Kinds :
            p = OutputPath(FileName(key, tmpl))

Progress ==
    Cardinality(visited) + Len(log) + (IF Terminated THEN 1 ELSE 0)

\* One range step and at most eight executeTemplate steps per entry, and
\* the end of the run.
ProgressBound == 9 * Cardinality(DOMAIN elements) + 1

EntryState(key) ==
    IF key \notin visited THEN "Pending"
    ELSE IF key = k /\ pc = "panic" THEN "Failed"
    ELSE IF key = k /\ InExecuteTemplate THEN "Derived"
    ELSE "Written"

\* Within a run: steps of the test artifact come after the four successful
\* steps of the implementation artifact of the same entry, no step is
\* attempted twice for an (entry, kind), an entry is Written only with both
\* artifacts written, and at most one step fails.
StepsInOrder ==
    /\ \A j \in DOMAIN log :
        log[j].tmpl = "test" =>
            \A step \in {"execute", "format", "create", "write"} :
                \E i \in 1..(j - 1) :
                    /\ log[i].key = log[j].key
                    /\ log[i].tmpl = "primary"
                    /\ log[i].step = step
                    /\ log[i].ok
    /\ \A i, j \in DOMAIN log :
        i < j => ~ /\ log[i].key = log[j].key
                   /\ log[i].tmpl = log[j].tmpl
                   /\ log[i].step = log[j].step
    /\ \A key \in DOMAIN elements :
        EntryState(key) = "Written" =>
            \A tmpl \in Kinds : Writes(key, tmpl) # {}
    /\ Cardinality(Failures) <= 1

\* Once an entry is Failed, no entry changes state.
FailedIsFinal ==
    (\E key \in DOMAIN elements : EntryState(key) = "Failed") =>
        \A key \in DOMAIN elements : EntryState(key)' = EntryState(key)

\* The moves the claim allows.
MovesAsStated ==
    run' = run =>
        \A key \in DOMAIN elements :
            \/ EntryState(key)' = EntryState(key)
            \/ EntryState(key) = "Pending" /\ EntryState(key)' = "Derived"
            \/ EntryState(key) = "Derived" /\ EntryState(key)' = "Written"
            \/ EntryState(key) = "Derived" /\ EntryState(key)' = "Failed"

\* The moves of the code: also Pending -> Failed, when the name derivation
\* itself panics.
MovesWithDerivationFailure ==
    run' = run =>
        \A key \in DOMAIN elements :
            \/ EntryState(key)' = EntryState(key)
            \/ /\ EntryState(key) = "Pending" /\ EntryState(key)' = "Derived"
               /\ ~DerivePanics(key, elements[key])
            \/ EntryState(key) = "Derived" /\ EntryState(key)' = "Written"
            \/ EntryState(key) = "Derived" /\ EntryState(key)' = "Failed"
            \/ /\ EntryState(key) = "Pending" /\ EntryState(key)' = "Failed"
               /\ DerivePanics(key, elements[key])

\* C10 as stated: entries move only Pending -> Derived -> Written or
\* Derived -> Failed, the implementation artifact is done before the test
\* artifact starts, no step is retried, and a Failed entry ends the run.
C10_EntryStateMachine ==
    /\ [][MovesAsStated]_vars
    /\ []StepsInOrder
    /\ [][FailedIsFinal]_vars

\* C10 as amended: the same, with the move Pending -> Failed for an entry
\* whose name derivation panics (empty key or attribute name, no override).
C10_EntryStateMachineWithDerivation ==
    /\ [][MovesWithDerivationFailure]_vars
    /\ []StepsInOrder
    /\ [][FailedIsFinal]_vars

\* One entry is Written and another has Failed in its test artifact, after
\* its implementation artifact was written.
C10_Witness ==
    /\ \E key \in DOMAIN elements : EntryState(key) = "Written"
    /\ \E key \in DOMAIN elements :
        /\ EntryState(key) = "Failed"
        /\ Writes(key, "primary") # {}
        /\ t = "test"

(***************************************************************************)
(* C11. No rollback.                                                       *)
(***************************************************************************)
\* The whole formatted text of an artifact of the catalog.
Artifact(key, tmpl) == FormatSource(Render(tmpl, TemplElem(key, elements[key])))

\* The artifacts fully written in this run: the write steps that succeeded.
FullyWritten == { i \in DOMAIN log : log[i].step = "write" /\ log[i].ok }

====
